---------------------------- MODULE Spec2Model ----------------------------
(***************************************************************************)
(* Model of samples/v1/enable_live_rule.py: the function enable_live_rule  *)
(* (validate the rule ID, POST to the enableLiveRule endpoint, print the   *)
(* body of an error response, raise for an error status, extract the       *)
(* operation ID from the JSON body) and the command-line entry point that  *)
(* calls it and prints the result.                                         *)
(*                                                                         *)
(* Strings are modelled as sequences of one-character strings so that      *)
(* matching, interpolation and splitting are computed character by         *)
(* character.                                                              *)
(***************************************************************************)
EXTENDS Integers, Sequences, FiniteSets, TLC

VARIABLES
    pc,         \* position of control: which statement runs next
    entry,      \* who invoked enable_live_rule: "lib" (a caller) or "main"
    rule_id,    \* the rule_id argument
    url,        \* local variable url (line 57)
    requests,   \* calls received by http_session.request, in order
    transport,  \* exception raised by http_session.request, or NoError
    response,   \* local variable response (line 58), or NoResponse
    stdout,     \* what print() has written, in order
    outcome     \* how enable_live_rule ended: nothing yet, return, raise

vars == <<pc, entry, rule_id, url, requests, transport, response, stdout, outcome>>

----------------------------------------------------------------------------
(* Bounds of the model *)

\* longest value of the "name" field that the server sends
MaxNameLen == 3

\* number of characters put before or after an identifier to pad it
MaxPad == 1

----------------------------------------------------------------------------
(* Characters and strings *)

Digits == {"0", "1", "2", "3", "4", "5", "6", "7", "8", "9"}
LowerHex == {"a", "b", "c", "d", "e", "f"}
UpperHex == {"A", "B", "C", "D", "E", "F"}

\* the character class [a-fA-F0-9] of RULE_ID_PATTERN
HexClass == LowerHex \cup UpperHex \cup Digits

\* all sequences over S of length at most n
RECURSIVE SeqsUpTo(_, _)
SeqsUpTo(S, n) ==
    IF n = 0 THEN {<<>>}
    ELSE LET shorter == SeqsUpTo(S, n - 1)
         IN  shorter \cup {Append(s, c) : s \in shorter, c \in S}

\* CHRONICLE_API_BASE_URL = "https://backstory.googleapis.com"
CHRONICLE_API_BASE_URL ==
    <<"h","t","t","p","s",":","/","/",
      "b","a","c","k","s","t","o","r","y",".",
      "g","o","o","g","l","e","a","p","i","s",".","c","o","m">>

----------------------------------------------------------------------------
(* RULE_ID_PATTERN and fullmatch *)

\* an atom of the compiled pattern: a literal character or the hex class
Lit(c) == [kind |-> "lit", ch |-> c]
Hex == [kind |-> "hex", ch |-> ""]

RECURSIVE Rep(_, _)
Rep(atom, n) == IF n = 0 THEN <<>> ELSE <<atom>> \o Rep(atom, n - 1)

\* ru_[a-fA-F0-9]{8}-[a-fA-F0-9]{4}-[a-fA-F0-9]{4}-[a-fA-F0-9]{4}-[a-fA-F0-9]{12}
RULE_ID_PATTERN ==
    <<Lit("r"), Lit("u"), Lit("_")>> \o Rep(Hex, 8) \o <<Lit("-")>>
        \o Rep(Hex, 4) \o <<Lit("-")>>
        \o Rep(Hex, 4) \o <<Lit("-")>>
        \o Rep(Hex, 4) \o <<Lit("-")>>
        \o Rep(Hex, 12)

AtomMatches(atom, c) ==
    IF atom.kind = "lit" THEN c = atom.ch ELSE c \in HexClass

\* Anchored match of atoms[k..] against s[i..]: the position after the last
\* character consumed, or -1 when the pattern does not match there.  Every
\* atom consumes exactly one character, so there is nothing to backtrack.
RECURSIVE MatchFrom(_, _, _, _)
MatchFrom(atoms, k, s, i) ==
    IF k > Len(atoms) THEN i
    ELSE IF i > Len(s) THEN -1
    ELSE IF AtomMatches(atoms[k], s[i]) THEN MatchFrom(atoms, k + 1, s, i + 1)
    ELSE -1

\* Variant of fullmatch: Pattern.match, which accepts any s that the pattern
\* matches a prefix of
PrefixMatch(s) == MatchFrom(RULE_ID_PATTERN, 1, s, 1) # -1

\* RULE_ID_PATTERN.fullmatch(rule_id): the match must end at the end of s
fullmatch(s) == MatchFrom(RULE_ID_PATTERN, 1, s, 1) = Len(s) + 1

----------------------------------------------------------------------------
(* str.split(sep) for a one-character separator *)

\* Python: "a/b".split("/") = ["a","b"], "".split("/") = [""],
\* "a/".split("/") = ["a",""]
RECURSIVE SplitFrom(_, _, _, _)
SplitFrom(s, sep, i, cur) ==
    IF i > Len(s) THEN <<cur>>
    ELSE IF s[i] = sep THEN <<cur>> \o SplitFrom(s, sep, i + 1, <<>>)
    ELSE SplitFrom(s, sep, i + 1, Append(cur, s[i]))

split(s, sep) == SplitFrom(s, sep, 1, <<>>)

----------------------------------------------------------------------------
(* Values the program handles *)

NoResponse == [status_code |-> -1, text |-> [kind |-> "none", fields |-> <<>>]]
NoError == "none"

\* outcome of enable_live_rule
Pending == [kind |-> "none", exc |-> "", val |-> <<>>]
Return(v) == [kind |-> "return", exc |-> "", val |-> v]
Raise(e, v) == [kind |-> "raise", exc |-> e, val |-> v]

\* JSON values found under a key of the response object
Str(s) == [type |-> "str", s |-> s]
Number == [type |-> "int", s |-> <<>>]

\* Response bodies.  A body is the text the server sent; kind says what
\* response.json() makes of it: a JSON object (with its fields), another
\* JSON value (an array), or text that is not JSON.
Object(f) == [kind |-> "object", fields |-> f]
Array == [kind |-> "array", fields |-> <<>>]
PlainText == [kind |-> "text", fields |-> <<>>]

----------------------------------------------------------------------------
(* Inputs: rule identifiers *)

Id(g1, g2, g3, g4, g5) ==
    <<"r", "u", "_">> \o g1 \o <<"-">> \o g2 \o <<"-">> \o g3 \o <<"-">>
        \o g4 \o <<"-">> \o g5

\* ru_12345678-1234-1234-1234-123456789abc
LowerId ==
    Id(<<"1","2","3","4","5","6","7","8">>, <<"1","2","3","4">>,
       <<"1","2","3","4">>, <<"1","2","3","4">>,
       <<"1","2","3","4","5","6","7","8","9","a","b","c">>)

\* ru_ABCDEF01-23aB-cDeF-4567-89abCDef0Fa9
MixedId ==
    Id(<<"A","B","C","D","E","F","0","1">>, <<"2","3","a","B">>,
       <<"c","D","e","F">>, <<"4","5","6","7">>,
       <<"8","9","a","b","C","D","e","f","0","F","a","9">>)

ReplaceAt(s, i, c) == [s EXCEPT ![i] = c]
DeleteAt(s, i) == SubSeq(s, 1, i - 1) \o SubSeq(s, i + 1, Len(s))

\* characters put in place of one character of an identifier
MutChars == {"g", "G", "F", "-", "_", " ", "R"}

\* characters put around an identifier ("LF" stands for a line feed)
PadChars == {" ", "0", "LF"}

Pads == SeqsUpTo(PadChars, MaxPad) \ {<<>>}

RuleIds ==
    {LowerId, MixedId, <<>>, LowerId \o LowerId, SubSeq(LowerId, 4, Len(LowerId))}
        \cup {ReplaceAt(LowerId, i, c) : i \in 1..Len(LowerId), c \in MutChars}
        \cup {DeleteAt(LowerId, i) : i \in 1..Len(LowerId)}
        \cup {p \o MixedId : p \in Pads}
        \cup {MixedId \o p : p \in Pads}

----------------------------------------------------------------------------
(* Inputs: what the session answers *)

NameChars == {"a", "b", "/"}
Names == SeqsUpTo(NameChars, MaxNameLen)

Bodies ==
    {Object([k \in {"name"} |-> Str(n)]) : n \in Names}
        \cup {Object([k \in {"name"} |-> Number]),
              Object([k \in {"error"} |-> Str(<<"a">>)]),
              Object(<<>>), Array, PlainText}

Statuses == {200, 204, 399, 400, 404, 503}

\* connection and timeout failures of the session
TransportErrors == {"ConnectionError", "Timeout"}

----------------------------------------------------------------------------
(* enable_live_rule *)

Init ==
    /\ pc = "idle"
    /\ entry = "none"
    /\ rule_id = <<>>
    /\ url = <<>>
    /\ requests = <<>>
    /\ transport = NoError
    /\ response = NoResponse
    /\ stdout = <<>>
    /\ outcome = Pending

\* a caller invokes enable_live_rule(http_session, rule_id)
Call ==
    /\ pc = "idle"
    /\ \E r \in RuleIds : rule_id' = r
    /\ entry' = "lib"
    /\ pc' = "validate"
    /\ UNCHANGED <<url, requests, transport, response, stdout, outcome>>

\* lines 76-79: the command line is parsed, the session is built and
\* enable_live_rule is called with args.rule_id
Main ==
    /\ pc = "idle"
    /\ \E r \in RuleIds : rule_id' = r
    /\ entry' = "main"
    /\ pc' = "validate"
    /\ UNCHANGED <<url, requests, transport, response, stdout, outcome>>

\* Variant of Validate: the check is made but nothing is raised
Validate_NoRaise ==
    /\ pc = "validate"
    /\ pc' = "request"
    /\ UNCHANGED <<entry, rule_id, url, requests, transport, response, stdout, outcome>>

\* lines 54-55
Validate ==
    /\ pc = "validate"
    /\ IF ~fullmatch(rule_id)
       THEN /\ outcome' = Raise("ValueError", rule_id)
            /\ pc' = "raised"
       ELSE /\ pc' = "request"
            /\ UNCHANGED outcome
    /\ UNCHANGED <<entry, rule_id, url, requests, transport, response, stdout>>

LowerChar(c) ==
    CASE c = "A" -> "a" [] c = "B" -> "b" [] c = "C" -> "c"
      [] c = "D" -> "d" [] c = "E" -> "e" [] c = "F" -> "f"
      [] OTHER -> c

\* Variant of BuildUrl: the identifier is lower-cased (rule_id.lower())
BuildUrl_Lower(r) ==
    CHRONICLE_API_BASE_URL
        \o <<"/","v","1","/","r","u","l","e","s","/">>
        \o [i \in 1..Len(r) |-> LowerChar(r[i])]
        \o <<":","e","n","a","b","l","e","L","i","v","e","R","u","l","e">>

\* line 57: f"{CHRONICLE_API_BASE_URL}/v1/rules/{rule_id}:enableLiveRule"
BuildUrl(r) ==
    CHRONICLE_API_BASE_URL
        \o <<"/","v","1","/","r","u","l","e","s","/">>
        \o r
        \o <<":","e","n","a","b","l","e","L","i","v","e","R","u","l","e">>

\* line 58: the arguments of http_session.request("POST", url)
RequestCall(u) == [method |-> "POST", url |-> u, kwargs |-> {}]

\* Variant of Request: a transport error is caught and the request is sent
\* a second time
Request_Retry ==
    /\ pc = "request"
    /\ url' = BuildUrl(rule_id)
    /\ \/ \E e \in TransportErrors :
            /\ requests' = <<RequestCall(url'), RequestCall(url')>>
            /\ transport' = e
            /\ outcome' = Raise(e, <<>>)
            /\ pc' = "raised"
            /\ UNCHANGED response
       \/ \E st \in Statuses, b \in Bodies :
            /\ requests' = Append(requests, RequestCall(url'))
            /\ response' = [status_code |-> st, text |-> b]
            /\ pc' = "check_status"
            /\ UNCHANGED <<transport, outcome>>
    /\ UNCHANGED <<entry, rule_id, stdout>>

\* Variant of Request: a transport error is caught and turned into an
\* error response
Request_Catch ==
    /\ pc = "request"
    /\ url' = BuildUrl(rule_id)
    /\ requests' = Append(requests, RequestCall(url'))
    /\ \/ \E e \in TransportErrors :
            /\ transport' = e
            /\ response' = [status_code |-> 503, text |-> PlainText]
            /\ pc' = "check_status"
            /\ UNCHANGED outcome
       \/ \E st \in Statuses, b \in Bodies :
            /\ response' = [status_code |-> st, text |-> b]
            /\ pc' = "check_status"
            /\ UNCHANGED <<transport, outcome>>
    /\ UNCHANGED <<entry, rule_id, stdout>>

\* lines 57-58: the session either raises a transport error, which is not
\* caught, or returns a response
Request ==
    /\ pc = "request"
    /\ url' = BuildUrl(rule_id)
    /\ requests' = Append(requests, RequestCall(url'))
    /\ \/ \E e \in TransportErrors :
            /\ transport' = e
            /\ outcome' = Raise(e, <<>>)
            /\ pc' = "raised"
            /\ UNCHANGED response
       \/ \E st \in Statuses, b \in Bodies :
            /\ response' = [status_code |-> st, text |-> b]
            /\ pc' = "check_status"
            /\ UNCHANGED <<transport, outcome>>
    /\ UNCHANGED <<entry, rule_id, stdout>>

\* Variant of CheckStatus: only server errors are printed (>= 500)
CheckStatus_ServerErrors ==
    /\ pc = "check_status"
    /\ IF response.status_code >= 500
       THEN stdout' = Append(stdout, [stmt |-> 65, arg |-> response.text])
       ELSE UNCHANGED stdout
    /\ pc' = "raise_for_status"
    /\ UNCHANGED <<entry, rule_id, url, requests, transport, response, outcome>>

\* lines 64-65
CheckStatus ==
    /\ pc = "check_status"
    /\ IF response.status_code >= 400
       THEN stdout' = Append(stdout, [stmt |-> 65, arg |-> response.text])
       ELSE UNCHANGED stdout
    /\ pc' = "raise_for_status"
    /\ UNCHANGED <<entry, rule_id, url, requests, transport, response, outcome>>

\* Variant of RaiseForStatus: status 400 itself is let through (> 400)
RaiseForStatus_Above400 ==
    /\ pc = "raise_for_status"
    /\ IF response.status_code > 400
       THEN /\ outcome' = Raise("HTTPError", response)
            /\ pc' = "raised"
       ELSE /\ pc' = "parse"
            /\ UNCHANGED outcome
    /\ UNCHANGED <<entry, rule_id, url, requests, transport, response, stdout>>

\* line 66, by the contract lines 51-52 state for it: HTTPError when
\* response.status_code >= 400
RaiseForStatus ==
    /\ pc = "raise_for_status"
    /\ IF response.status_code >= 400
       THEN /\ outcome' = Raise("HTTPError", response)
            /\ pc' = "raised"
       ELSE /\ pc' = "parse"
            /\ UNCHANGED outcome
    /\ UNCHANGED <<entry, rule_id, url, requests, transport, response, stdout>>

\* Variant of ParseResult: index 0, the part before the first "/"
ParseResult_First(body) ==
    IF body.kind = "text" THEN Raise("JSONDecodeError", <<>>)
    ELSE IF body.kind # "object" THEN Raise("TypeError", <<>>)
    ELSE IF "name" \notin DOMAIN body.fields THEN Raise("KeyError", <<>>)
    ELSE LET v == body.fields["name"]
         IN  IF v.type # "str" THEN Raise("AttributeError", <<>>)
             ELSE Return(split(v.s, "/")[1])

\* Variant of ParseResult: index -1, the part after the last "/"
ParseResult_Last(body) ==
    IF body.kind = "text" THEN Raise("JSONDecodeError", <<>>)
    ELSE IF body.kind # "object" THEN Raise("TypeError", <<>>)
    ELSE IF "name" \notin DOMAIN body.fields THEN Raise("KeyError", <<>>)
    ELSE LET v == body.fields["name"]
         IN  IF v.type # "str" THEN Raise("AttributeError", <<>>)
             ELSE LET parts == split(v.s, "/")
                  IN  Return(parts[Len(parts)])

\* line 67: response.json()["name"].split("/")[1]
ParseResult(body) ==
    IF body.kind = "text" THEN Raise("JSONDecodeError", <<>>)
    ELSE IF body.kind # "object" THEN Raise("TypeError", <<>>)
    ELSE IF "name" \notin DOMAIN body.fields THEN Raise("KeyError", <<>>)
    ELSE LET v == body.fields["name"]
         IN  IF v.type # "str" THEN Raise("AttributeError", <<>>)
             ELSE LET parts == split(v.s, "/")
                  IN  IF Len(parts) < 2 THEN Raise("IndexError", <<>>)
                      ELSE Return(parts[2])

\* line 67
ParseReturn ==
    /\ pc = "parse"
    /\ outcome' = ParseResult(response.text)
    /\ pc' = IF outcome'.kind = "return" THEN "returned" ELSE "raised"
    /\ UNCHANGED <<entry, rule_id, url, requests, transport, response, stdout>>

----------------------------------------------------------------------------
(* The command-line entry point *)

\* Variant of MainPrint: the call is wrapped so that the print is reached
\* whether it returned or raised
MainPrint_Always ==
    /\ entry = "main"
    /\ pc \in {"returned", "raised"}
    /\ stdout' = Append(stdout, [stmt |-> 80, arg |-> <<>>])
    /\ pc' = "exit_ok"
    /\ UNCHANGED <<entry, rule_id, url, requests, transport, response, outcome>>

\* line 80: print(operation_id), reached only when line 79 returned
MainPrint ==
    /\ entry = "main"
    /\ pc = "returned"
    /\ stdout' = Append(stdout, [stmt |-> 80, arg |-> outcome.val])
    /\ pc' = "exit_ok"
    /\ UNCHANGED <<entry, rule_id, url, requests, transport, response, outcome>>

\* line 79 raised: nothing catches the exception and the process ends
MainUncaught ==
    /\ entry = "main"
    /\ pc = "raised"
    /\ pc' = "exit_error"
    /\ UNCHANGED <<entry, rule_id, url, requests, transport, response, stdout, outcome>>

Next ==
    \/ Call
    \/ Main
    \/ Validate
    \/ Request
    \/ CheckStatus
    \/ RaiseForStatus
    \/ ParseReturn
    \/ MainPrint
    \/ MainUncaught

Spec == Init /\ [][Next]_vars

TypeOK ==
    /\ pc \in {"idle", "validate", "request", "check_status", "raise_for_status",
               "parse", "returned", "raised", "exit_ok", "exit_error"}
    /\ entry \in {"none", "lib", "main"}
    /\ Len(requests) \in 0..1
    /\ outcome.kind \in {"none", "return", "raise"}

----------------------------------------------------------------------------
(* Vocabulary of the properties, stated without the model's operators *)

HexDigits ==
    {"0", "1", "2", "3", "4", "5", "6", "7", "8", "9",
     "a", "b", "c", "d", "e", "f", "A", "B", "C", "D", "E", "F"}

\* s is "ru_", then groups of 8, 4, 4, 4 and 12 hex digits separated by "-",
\* and nothing else
WellFormedRuleId(s) ==
    /\ Len(s) = 39
    /\ s[1] = "r" /\ s[2] = "u" /\ s[3] = "_"
    /\ \A i \in {12, 17, 22, 27} : s[i] = "-"
    /\ \A i \in (4..39) \ {12, 17, 22, 27} : s[i] \in HexDigits

\* enable_live_rule has been entered and line 54 has been decided
Validated == pc \notin {"idle", "validate"}

\* enable_live_rule has returned or raised
Ended == pc \in {"returned", "raised", "exit_ok", "exit_error"}

\* line 66 has been decided for a response
StatusDecided ==
    /\ response # NoResponse
    /\ pc \in {"parse", "returned", "raised", "exit_ok", "exit_error"}

\* line 65 has been passed for a response
PrintDecided ==
    /\ response # NoResponse
    /\ pc \in {"raise_for_status", "parse", "returned", "raised", "exit_ok",
               "exit_error"}

\* line 67 has been evaluated on a response without an error status
ParsedSuccess ==
    /\ response # NoResponse
    /\ response.status_code < 400
    /\ Ended

HasSlash(s) == \E i \in 1..Len(s) : s[i] = "/"

FirstSlash(s) ==
    CHOOSE i \in 1..Len(s) : s[i] = "/" /\ \A j \in 1..(i - 1) : s[j] # "/"

\* everything after the first "/"
SuffixAfterFirstSlash(s) == SubSeq(s, FirstSlash(s) + 1, Len(s))

\* what lies between the first "/" and the next one (or the end)
SecondSegment(s) ==
    LET rest == SuffixAfterFirstSlash(s)
    IN  IF HasSlash(rest) THEN SubSeq(rest, 1, FirstSlash(rest) - 1) ELSE rest

\* the body is a JSON object whose "name" is a string
HasNameString ==
    /\ response.text.kind = "object"
    /\ "name" \in DOMAIN response.text.fields
    /\ response.text.fields["name"].type = "str"

NameString == response.text.fields["name"].s

\* the body is a JSON object without a "name" field
LacksName ==
    /\ response.text.kind = "object"
    /\ "name" \notin DOMAIN response.text.fields

DiagnosticPrints == SelectSeq(stdout, LAMBDA e : e.stmt = 65)
OperationIdPrints == SelectSeq(stdout, LAMBDA e : e.stmt = 80)

----------------------------------------------------------------------------
(* Properties *)

\* C1: a rule identifier that is not of the shape ru_<8>-<4>-<4>-<4>-<12>
\* makes enable_live_rule raise ValueError (carrying the identifier), and
\* http_session.request is not called: no request exists before validation
\* has passed, and none after it has failed.
C1_InvalidIdRaisesWithoutRequest ==
    /\ ~Validated => requests = <<>>
    /\ (Validated /\ ~WellFormedRuleId(rule_id)) =>
          /\ outcome = Raise("ValueError", rule_id)
          /\ pc \in {"raised", "exit_error"}
          /\ requests = <<>>
          /\ response = NoResponse

C1_Witness ==
    /\ pc = "raised"
    /\ rule_id = MixedId \o <<" ">>
    /\ outcome.exc = "ValueError"
    /\ requests = <<>>

\* C2: validation accepts a string exactly when the whole of it is "ru_"
\* followed by hex groups of lengths 8-4-4-4-12 separated by "-", hex digits
\* in either case; padded, shortened, lengthened or prefix-less strings are
\* rejected.
C2_AcceptsExactlyWellFormed ==
    Validated =>
        ((outcome.kind = "raise" /\ outcome.exc = "ValueError")
            <=> ~WellFormedRuleId(rule_id))

C2_Witness ==
    /\ pc = "request"
    /\ rule_id = MixedId
    /\ outcome = Pending

\* C3: a response with status code >= 400 makes enable_live_rule raise
\* HTTPError carrying that response (status code and body), and a value is
\* returned only for a status code < 400.
C3_ErrorStatusRaisesHttpError ==
    /\ StatusDecided =>
          IF response.status_code >= 400
          THEN /\ outcome = Raise("HTTPError", response)
               /\ pc \in {"raised", "exit_error"}
          ELSE outcome.exc # "HTTPError"
    /\ outcome.kind = "return" =>
          /\ response # NoResponse
          /\ response.status_code < 400

C3_Witness ==
    /\ pc = "raised"
    /\ response.status_code = 400
    /\ outcome = Raise("HTTPError", response)

\* C4: for a status code >= 400 the body text is printed exactly once, and
\* it has been printed when line 66 is about to raise HTTPError; for a status
\* code < 400 nothing is printed by enable_live_rule.
C4_BodyPrintedOnceBeforeHttpError ==
    /\ PrintDecided =>
          DiagnosticPrints =
              IF response.status_code >= 400
              THEN <<[stmt |-> 65, arg |-> response.text]>>
              ELSE <<>>
    /\ ~PrintDecided => DiagnosticPrints = <<>>
    /\ outcome.exc = "HTTPError" =>
          /\ Len(stdout) >= 1
          /\ stdout[1] = [stmt |-> 65, arg |-> response.text]

C4_Witness ==
    /\ pc = "raise_for_status"
    /\ response.status_code = 404
    /\ stdout = <<[stmt |-> 65, arg |-> response.text]>>
    /\ outcome = Pending

\* C5 as stated: whenever a value is returned for a name containing "/",
\* it is everything after the first "/".
C5_ReturnsSuffixAfterFirstSlash ==
    (outcome.kind = "return" /\ HasNameString /\ HasSlash(NameString)) =>
        outcome.val = SuffixAfterFirstSlash(NameString)

\* C5 amended: for a success status and a name containing "/", the value
\* returned is the second "/"-separated part of the name: what follows the
\* first "/" up to, and not including, the next "/" if there is one.
C5_ReturnsSecondSegment ==
    (ParsedSuccess /\ HasNameString /\ HasSlash(NameString)) =>
        outcome = Return(SecondSegment(NameString))

C5_Witness ==
    /\ pc = "returned"
    /\ HasNameString
    /\ NameString = <<"/", "a", "/">>
    /\ outcome = Return(<<"a">>)

\* C6 as stated: a success status with a body that has no "name", or whose
\* name has no "/", ends in a MalformedResponse error.
C6_RaisesMalformedResponse ==
    (ParsedSuccess /\ (LacksName \/ (HasNameString /\ ~HasSlash(NameString)))) =>
        outcome = Raise("MalformedResponse", <<>>)

\* C6 amended: a success status with a JSON object that has no "name" ends in
\* KeyError, and with a name that has no "/" in IndexError; no value is
\* returned in either case.
C6_RaisesLookupOrIndexError ==
    /\ (ParsedSuccess /\ LacksName) => outcome = Raise("KeyError", <<>>)
    /\ (ParsedSuccess /\ HasNameString /\ ~HasSlash(NameString)) =>
          outcome = Raise("IndexError", <<>>)

C6_Witness ==
    /\ pc = "raised"
    /\ response.status_code = 200
    /\ HasNameString
    /\ NameString = <<"a", "b">>
    /\ outcome.exc = "IndexError"

\* C7 as stated: every invocation that has ended has made exactly one call of
\* http_session.request.
C7_ExactlyOneRequestPerInvocation ==
    Ended => Len(requests) = 1

\* C7 amended: an invocation never makes a second call of
\* http_session.request; one that has ended has made exactly one call if its
\* identifier passed validation, whatever the status or the parse outcome, and
\* none if validation failed.
C7_OneRequestIffValidated ==
    /\ Len(requests) <= 1
    /\ Ended =>
          Len(requests) = IF WellFormedRuleId(rule_id) THEN 1 ELSE 0

C7_Witness ==
    /\ pc = "raised"
    /\ outcome.exc = "IndexError"
    /\ Len(requests) = 1

\* C8: the request made for a validated identifier r is a POST, without body
\* arguments, to https://backstory.googleapis.com/v1/rules/ followed by r,
\* character for character, followed by :enableLiveRule.
C8_PostToEnableLiveRuleUrl ==
    requests # <<>> =>
        LET q == requests[1]
            n == Len(rule_id)
        IN  /\ WellFormedRuleId(rule_id)
            /\ q.method = "POST"
            /\ q.kwargs = {}
            /\ Len(q.url) = 42 + n + 15
            /\ SubSeq(q.url, 1, 42) =
                  <<"h","t","t","p","s",":","/","/","b","a","c","k","s","t",
                    "o","r","y",".","g","o","o","g","l","e","a","p","i","s",
                    ".","c","o","m","/","v","1","/","r","u","l","e","s","/">>
            /\ SubSeq(q.url, 43, 42 + n) = rule_id
            /\ SubSeq(q.url, 43 + n, 42 + n + 15) =
                  <<":","e","n","a","b","l","e","L","i","v","e","R","u","l","e">>

C8_Witness ==
    /\ Len(requests) = 1
    /\ rule_id = MixedId
    /\ requests[1].url = url

\* C9: a transport error raised by http_session.request is the error
\* enable_live_rule ends with; nothing is printed, no response is examined
\* and no further request is made.
C9_TransportErrorPropagates ==
    transport # NoError =>
        /\ outcome = Raise(transport, <<>>)
        /\ pc \in {"raised", "exit_error"}
        /\ stdout = <<>>
        /\ response = NoResponse
        /\ Len(requests) = 1

C9_Witness ==
    /\ pc = "raised"
    /\ transport = "Timeout"
    /\ outcome = Raise("Timeout", <<>>)

\* C10: the entry point prints the operation ID only after enable_live_rule
\* has returned, and then exactly once; when enable_live_rule raises, the
\* process ends with the error, prints no operation ID, and for an HTTPError
\* the body was printed before the process ended.
C10_MainPrintsOnlyAfterSuccess ==
    entry = "main" =>
        /\ OperationIdPrints # <<>> =>
              /\ pc = "exit_ok"
              /\ outcome.kind = "return"
              /\ OperationIdPrints = <<[stmt |-> 80, arg |-> outcome.val]>>
        /\ pc = "exit_ok" => Len(OperationIdPrints) = 1
        /\ outcome.kind = "raise" => pc \in {"raised", "exit_error"}
        /\ pc = "exit_error" =>
              /\ outcome.kind = "raise"
              /\ OperationIdPrints = <<>>
              /\ outcome.exc = "HTTPError" =>
                    stdout = <<[stmt |-> 65, arg |-> response.text]>>

C10_Witness ==
    /\ entry = "main"
    /\ pc = "exit_ok"
    /\ stdout = <<[stmt |-> 80, arg |-> <<"b">>]>>

=============================================================================
